---- MODULE Spec2Model ----
(***************************************************************************)
(* Model of the "computacion" REST API (server.js, utils.js,               *)
(* src/mongodb.js): nine Express handlers over one MongoDB collection,     *)
(* each an async function that suspends at connectDB, at its collection    *)
(* call(s) and at disconnectDB.                                            *)
(*                                                                         *)
(* JavaScript values are records [t, n, s]: t is the type tag, n the       *)
(* value of a number, s the characters of a string (a sequence of          *)
(* one-character strings, so that parseInt / parseFloat / RegExp can       *)
(* inspect them).  Only integer-valued numbers are enumerated, and the     *)
(* alphabet has no ".", "e" or "x", so parseFloat and parseInt read the    *)
(* same decimal prefix on every string of the model.                       *)
(***************************************************************************)
EXTENDS Integers, Sequences, FiniteSets, TLC

VARIABLES coleccion,   \* the documents of computacion.computacion, in natural order
          nextId,      \* the next _id the store hands out on insertOne
          clientOpen,  \* the one MongoClient of src/mongodb.js is connected
          reqs,        \* per handler invocation: request, position, response, counters
          previo       \* summary of the request that completed before the current one

vars == <<coleccion, nextId, clientOpen, reqs, previo>>

----------------------------------------------------------------------------
(* Bounds *)

\* inserts the store accepts in one run (so at most MaxId documents)
MaxId == 2
\* handler invocations that can be in flight at once
NSlots == 2

Slots == 1..NSlots

----------------------------------------------------------------------------
(* JavaScript values *)

Undef == [t |-> "undef", n |-> 0, s |-> <<>>]
NaN == [t |-> "nan", n |-> 0, s |-> <<>>]
Num(k) == [t |-> "num", n |-> k, s |-> <<>>]
Str(cs) == [t |-> "str", n |-> 0, s |-> cs]

Digits == <<"0", "1", "2", "3", "4", "5", "6", "7", "8", "9">>

IsDigit(c) == \E d \in 1..10 : Digits[d] = c

DigitVal(c) == (CHOOSE d \in 1..10 : Digits[d] = c) - 1

\* String.prototype.trim on a character sequence
RECURSIVE TrimLeft(_)
TrimLeft(cs) ==
  IF cs # <<>> /\ Head(cs) = " " THEN TrimLeft(Tail(cs)) ELSE cs

RECURSIVE TrimRight(_)
TrimRight(cs) ==
  IF cs # <<>> /\ cs[Len(cs)] = " " THEN TrimRight(SubSeq(cs, 1, Len(cs) - 1)) ELSE cs

Trim(cs) == TrimRight(TrimLeft(cs))

\* the longest prefix of decimal digits
RECURSIVE DigitPrefix(_)
DigitPrefix(cs) ==
  IF cs # <<>> /\ IsDigit(Head(cs)) THEN <<Head(cs)>> \o DigitPrefix(Tail(cs)) ELSE <<>>

RECURSIVE DigitsValue(_, _)
DigitsValue(ds, acc) ==
  IF ds = <<>> THEN acc ELSE DigitsValue(Tail(ds), 10 * acc + DigitVal(Head(ds)))

\* ToString of an integer-valued number
RECURSIVE NatChars(_)
NatChars(k) ==
  IF k < 10 THEN <<Digits[k + 1]>> ELSE NatChars(k \div 10) \o <<Digits[(k % 10) + 1]>>

NumChars(k) == IF k < 0 THEN <<"-">> \o NatChars(-k) ELSE NatChars(k)

\* ToString(v) as parseInt / parseFloat apply it to their argument
ToChars(v) ==
  CASE v.t = "num" -> NumChars(v.n)
    [] v.t = "str" -> v.s
    [] v.t = "nan" -> <<"N", "a", "N">>
    [] OTHER -> <<"u", "n", "d", "e", "f", "i", "n", "e", "d">>

\* parseInt / parseFloat of a character sequence: leading white space is
\* skipped, an optional sign is read, then the decimal digits up to the
\* first other character; NaN when there is no digit
ParseChars(cs) ==
  LET t == TrimLeft(cs)
      neg == t # <<>> /\ Head(t) = "-"
      rest == IF t # <<>> /\ Head(t) \in {"-", "+"} THEN Tail(t) ELSE t
      ds == DigitPrefix(rest)
  IN IF ds = <<>> THEN NaN
     ELSE Num(IF neg THEN -DigitsValue(ds, 0) ELSE DigitsValue(ds, 0))

parseInt(v) == ParseChars(ToChars(v))

parseFloat(v) == ParseChars(ToChars(v))

\* !v
Falsy(v) ==
  \/ v.t \in {"undef", "nan"}
  \/ v.t = "num" /\ v.n = 0
  \/ v.t = "str" /\ v.s = <<>>

\* a template literal ${v} / Array.prototype.join, as a string
RECURSIVE Texto(_)
Texto(cs) == IF cs = <<>> THEN "" ELSE Head(cs) \o Texto(Tail(cs))

RECURSIVE Join(_, _)
Join(ks, sep) ==
  IF ks = <<>> THEN ""
  ELSE IF Len(ks) = 1 THEN Head(ks)
  ELSE Head(ks) \o sep \o Join(Tail(ks), sep)

\* the "i" flag on the letters of the model's alphabet
Lower(c) == CASE c = "A" -> "a" [] c = "B" -> "b" [] OTHER -> c

LowerAll(cs) == [i \in 1..Len(cs) |-> Lower(cs[i])]

\* RegExp(q, "i") on a string: q occurs in cs, ignoring case (q is made
\* of literal characters only)
Contains(cs, q) ==
  \E i \in 0..(Len(cs) - Len(q)) :
    LowerAll(SubSeq(cs, i + 1, i + Len(q))) = LowerAll(q)

\* new RegExp(`^${q}$`, "i") on a string
MatchesWhole(cs, q) == LowerAll(cs) = LowerAll(q)

----------------------------------------------------------------------------
(* Request bodies and documents *)

\* a body is the sequence of its (key, value) pairs, in the order of
\* Object.keys; req.body.x is Campo(b, "x")
Tiene(b, k) == \E i \in 1..Len(b) : b[i].k = k

Campo(b, k) ==
  IF Tiene(b, k) THEN b[CHOOSE i \in 1..Len(b) : b[i].k = k].v ELSE Undef

Claves(b) == [i \in 1..Len(b) |-> b[i].k]

RECURSIVE Filtrar(_, _)
Filtrar(ks, permitidos) ==
  IF ks = <<>> THEN <<>>
  ELSE IF Head(ks) \in permitidos THEN Filtrar(Tail(ks), permitidos)
  ELSE <<Head(ks)>> \o Filtrar(Tail(ks), permitidos)

camposPermitidos == {"codigo", "nombre", "precio", "categoria"}

\* controlDeCampos with find in place of filter: only the first key that is
\* not allowed is reported
controlDeCamposPrimero(nuevoProducto) ==
  LET campos == Filtrar(Claves(nuevoProducto), camposPermitidos)
  IN IF campos = <<>> THEN <<>> ELSE <<Head(campos)>>

\* utils.js: the keys of the body that are not allowed, in the body's order
controlDeCampos(nuevoProducto) == Filtrar(Claves(nuevoProducto), camposPermitidos)

\* the document insertOne stores for a body: the body's fields plus the _id
\* the store assigns
Documento(b, id) ==
  [id |-> id, codigo |-> Campo(b, "codigo"), nombre |-> Campo(b, "nombre"),
   precio |-> Campo(b, "precio"), categoria |-> Campo(b, "categoria")]

\* {$set: b} applied to a document: every key of b overwrites the field
Set(doc, b) ==
  [id |-> doc.id,
   codigo |-> IF Tiene(b, "codigo") THEN Campo(b, "codigo") ELSE doc.codigo,
   nombre |-> IF Tiene(b, "nombre") THEN Campo(b, "nombre") ELSE doc.nombre,
   precio |-> IF Tiene(b, "precio") THEN Campo(b, "precio") ELSE doc.precio,
   categoria |-> IF Tiene(b, "categoria") THEN Campo(b, "categoria") ELSE doc.categoria]

----------------------------------------------------------------------------
(* Collection operations of the store, as the handlers call them *)

\* the filter {codigo: cod}: a number matches a number of the same value
\* only (a string "1" is not the number 1)
CoincideCodigo(doc, cod) == doc.codigo.t = "num" /\ cod.t = "num" /\ doc.codigo.n = cod.n

\* index of the first document the filter {codigo: cod} matches; 0 if none
Primero(col, cod) ==
  IF \E i \in 1..Len(col) : CoincideCodigo(col[i], cod)
  THEN CHOOSE i \in 1..Len(col) :
         /\ CoincideCodigo(col[i], cod)
         /\ \A j \in 1..(i - 1) : ~CoincideCodigo(col[j], cod)
  ELSE 0

\* collection.findOne({codigo: cod}): <<doc>> or <<>> (null)
findOne(col, cod) ==
  LET i == Primero(col, cod) IN IF i = 0 THEN <<>> ELSE <<col[i]>>

\* collection.insertOne(doc)
insertOne(col, doc) == Append(col, doc)

\* collection.updateOne({codigo: cod}, {$set: b}): the first match is
\* updated; modifiedCount counts it only if the update changed it
updateOne(col, cod, b) ==
  LET i == Primero(col, cod) IN
  IF i = 0 THEN [col |-> col, matchedCount |-> 0, modifiedCount |-> 0]
  ELSE [col |-> [col EXCEPT ![i] = Set(col[i], b)],
        matchedCount |-> 1,
        modifiedCount |-> IF Set(col[i], b) = col[i] THEN 0 ELSE 1]

\* collection.deleteOne({codigo: cod}): the first match is removed
deleteOne(col, cod) ==
  LET i == Primero(col, cod) IN
  IF i = 0 THEN [col |-> col, deletedCount |-> 0]
  ELSE [col |-> SubSeq(col, 1, i - 1) \o SubSeq(col, i + 1, Len(col)),
        deletedCount |-> 1]

\* find({precio: {$gte: p}}): numbers compare with numbers only
PrecioGte(doc, p) == doc.precio.t = "num" /\ doc.precio.n >= p.n

findPrecio(col, p) == LET T(d) == PrecioGte(d, p) IN SelectSeq(col, T)

\* find({nombre: RegExp(q, "i")}): string fields containing q
findNombre(col, q) ==
  LET T(d) == d.nombre.t = "str" /\ Contains(d.nombre.s, q) IN SelectSeq(col, T)

\* find({categoria: new RegExp(`^${q}$`, "i")})
findCategoria(col, q) ==
  LET T(d) == d.categoria.t = "str" /\ MatchesWhole(d.categoria.s, q) IN SelectSeq(col, T)

\* the order of two codigo values in a sort: numbers before strings,
\* numbers by value, strings by their characters
Alfabeto == <<" ", "-", "0", "1", "2", "3", "4", "5", "6", "7", "8", "9", "A", "B", "a", "b">>

Ord(c) == CHOOSE i \in 1..Len(Alfabeto) : Alfabeto[i] = c

RECURSIVE MenorChars(_, _)
MenorChars(a, b) ==
  IF b = <<>> THEN FALSE
  ELSE IF a = <<>> THEN TRUE
  ELSE IF Head(a) = Head(b) THEN MenorChars(Tail(a), Tail(b))
  ELSE Ord(Head(a)) < Ord(Head(b))

Menor(x, y) ==
  CASE x.t = "num" /\ y.t = "num" -> x.n < y.n
    [] x.t = "num" /\ y.t = "str" -> TRUE
    [] x.t = "str" /\ y.t = "str" -> MenorChars(x.s, y.s)
    [] OTHER -> FALSE

\* find().sort({codigo: -1}): descending by codigo, equal keys in natural order
RECURSIVE Insertar(_, _)
Insertar(sorted, d) ==
  IF sorted = <<>> THEN <<d>>
  ELSE IF Menor(Head(sorted).codigo, d.codigo) THEN <<d>> \o sorted
  ELSE <<Head(sorted)>> \o Insertar(Tail(sorted), d)

RECURSIVE sortCodigoDesc(_)
sortCodigoDesc(col) ==
  IF col = <<>> THEN <<>>
  ELSE Insertar(sortCodigoDesc(SubSeq(col, 1, Len(col) - 1)), col[Len(col)])

----------------------------------------------------------------------------
(* Responses: res.status(n).json({...}).  keys is the set of keys of the   *)
(* JSON object sent; success and msg are read only when their key is in    *)
(* it; the value under "response" (or "respnse") is tipo/docs/cuerpo.      *)
(* Messages are written without their accents.                             *)

SinRespuesta ==
  [status |-> 0, keys |-> {}, success |-> FALSE, msg |-> "",
   tipo |-> "none", docs |-> <<>>, cuerpo |-> <<>>]

\* {success: false, msg}
Fallo(status, msg) ==
  [status |-> status, keys |-> {"success", "msg"}, success |-> FALSE, msg |-> msg,
   tipo |-> "none", docs |-> <<>>, cuerpo |-> <<>>]

\* {success: true, msg}
Exito(status, msg) ==
  [status |-> status, keys |-> {"success", "msg"}, success |-> TRUE, msg |-> msg,
   tipo |-> "none", docs |-> <<>>, cuerpo |-> <<>>]

\* {response: <array of documents>, success: true, msg}
ExitoDocs(status, msg, docs) ==
  [status |-> status, keys |-> {"response", "success", "msg"}, success |-> TRUE,
   msg |-> msg, tipo |-> "docs", docs |-> docs, cuerpo |-> <<>>]

\* {response: <one document>, success: true, msg}
ExitoDoc(status, msg, doc) ==
  [status |-> status, keys |-> {"response", "success", "msg"}, success |-> TRUE,
   msg |-> msg, tipo |-> "doc", docs |-> <<doc>>, cuerpo |-> <<>>]

ErrorConexion == Fallo(500, "Error al conectarse a MongoDB")

MsgCampos(campos) ==
  "Error, se enviaron campos que no estan en la base de datos: " \o Join(campos, ", ")

----------------------------------------------------------------------------
(* The synchronous head of each handler, up to its first await: the       *)
(* response it sends (SinRespuesta if none) and where it goes next:       *)
(* "done" (a return outside the try), "finally" (a return inside the      *)
(* try, which runs the finally block) or "connect" (await connectDB()).   *)

Sigue == [res |-> SinRespuesta, sig |-> "connect"]

Corta(res, sig) == [res |-> res, sig |-> sig]

\* GET /computacion
ValidarLista(p, b) == Sigue

\* GET /computacion/codigo/:codigo
ValidarGetCodigo(p, b) ==
  LET codigoProducto == parseInt(Str(Trim(p))) IN
  IF codigoProducto.t = "nan"
  THEN Corta(Fallo(400, "El codigo del producto no es valido, debe ser numerico"), "done")
  ELSE Sigue

\* GET /computacion/nombre/:nombre
ValidarGetNombre(p, b) == Sigue

\* GET /computacion/precio/:precio
ValidarGetPrecio(p, b) ==
  LET productoPrecio == parseFloat(Str(Trim(p))) IN
  IF Falsy(productoPrecio)
  THEN Corta(Fallo(400, "El precio debe ser numerico"), "done")
  ELSE Sigue

\* GET /computacion/categoria/:categoria
ValidarGetCategoria(p, b) == Sigue

\* POST /computacion
ValidarPost(p, b) ==
  LET nuevoProducto == b
      codigoProducto == parseInt(Campo(b, "codigo"))
      camposNoPermitidos == controlDeCampos(nuevoProducto)
  IN
  IF Len(camposNoPermitidos) > 0
  THEN Corta(Fallo(400, MsgCampos(camposNoPermitidos)), "done")
  ELSE IF Falsy(codigoProducto) \/ codigoProducto.n < 1
  THEN Corta(Fallo(400, "Codigo de producto invalido"), "finally")
  ELSE IF Falsy(Campo(nuevoProducto, "nombre"))
  THEN Corta(Fallo(400, "Le falta enviar el nombre del producto"), "finally")
  ELSE IF Falsy(Campo(nuevoProducto, "precio"))
  THEN Corta(Fallo(400, "Le falta enviar el precio del producto"), "finally")
  ELSE IF Falsy(Campo(nuevoProducto, "categoria"))
  THEN Corta(Fallo(400, "Le falta enviar la categoria del producto"), "finally")
  ELSE Sigue

\* PUT /computacion/:codigo
ValidarPut(p, b) ==
  LET codigoProducto == parseInt(Str(Trim(p)))
      nuevosDatos == b
      camposNoPermitidos == controlDeCampos(nuevosDatos)
  IN
  IF Falsy(codigoProducto)
  THEN Corta(Fallo(400, "El codigo de producto es invalido"), "finally")
  ELSE IF Len(camposNoPermitidos) > 0
  THEN Corta(Fallo(400, MsgCampos(camposNoPermitidos)), "finally")
  ELSE IF Falsy(Campo(nuevosDatos, "codigo"))
  THEN Corta(Fallo(400, "Le falta enviar el codigo del producto para modificar"), "finally")
  ELSE IF Falsy(Campo(nuevosDatos, "nombre"))
  THEN Corta(Fallo(400, "Le falta enviar el nombre del producto para modificar"), "finally")
  ELSE IF Falsy(Campo(nuevosDatos, "precio"))
  THEN Corta(Fallo(400, "Le falta enviar el precio del producto a modificar"), "finally")
  ELSE IF Falsy(Campo(nuevosDatos, "categoria"))
  THEN Corta(Fallo(400, "Le falta enviar la categoria del producto a modificar"), "finally")
  ELSE Sigue

\* PATCH /computacion/:codigo
ValidarPatch(p, b) ==
  LET codigoProducto == parseInt(Str(Trim(p)))
      nuevoPrecio == parseFloat(Campo(b, "precio"))
  IN
  IF Falsy(codigoProducto) \/ codigoProducto.n <= 0
  THEN Corta(Fallo(400, "El codigo de producto es invalido"), "finally")
  ELSE IF Falsy(nuevoPrecio) \/ nuevoPrecio.n <= 0
  THEN Corta(Fallo(400, "Ingrese un precio valido para el producto"), "finally")
  ELSE Sigue

\* DELETE /computacion/:codigo
ValidarDelete(p, b) ==
  LET codigoProducto == parseInt(Str(Trim(p))) IN
  IF Falsy(codigoProducto)
  THEN Corta(Fallo(400, "Error en el formato de datos"), "finally")
  ELSE Sigue

Validar(m, p, b) ==
  CASE m = "LIST" -> ValidarLista(p, b)
    [] m = "GETCODIGO" -> ValidarGetCodigo(p, b)
    [] m = "GETNOMBRE" -> ValidarGetNombre(p, b)
    [] m = "GETPRECIO" -> ValidarGetPrecio(p, b)
    [] m = "GETCATEGORIA" -> ValidarGetCategoria(p, b)
    [] m = "POST" -> ValidarPost(p, b)
    [] m = "PUT" -> ValidarPut(p, b)
    [] m = "PATCH" -> ValidarPatch(p, b)
    [] m = "DELETE" -> ValidarDelete(p, b)

----------------------------------------------------------------------------
(* The part of each handler that runs when its collection call returns:   *)
(* the collection after the call, the response sent and where the handler *)
(* goes next ("finally", or "op2" for the insertOne of POST).  ack is the *)
(* acknowledged flag of the write result; an unacknowledged write reports *)
(* its counts as 0.                                                        *)

Hecho(col, res) == [col |-> col, res |-> res, sig |-> "finally"]

\* GET /computacion: find().sort({codigo: -1}).toArray()
OpLista(col, p, b, ack) ==
  Hecho(col, ExitoDocs(200, "Productos obtenidos", sortCodigoDesc(col)))

\* GET /computacion/codigo/:codigo: findOne({codigo: codigoProducto})
OpGetCodigo(col, p, b, ack) ==
  LET codigoProducto == parseInt(Str(Trim(p)))
      producto == findOne(col, codigoProducto)
  IN
  IF producto # <<>>
  THEN Hecho(col, ExitoDoc(200,
         "Producto " \o Texto(ToChars(codigoProducto)) \o " encontrado con exito",
         producto[1]))
  ELSE Hecho(col, Fallo(404,
         "El producto con codigo " \o Texto(ToChars(codigoProducto)) \o " no existe"))

\* GET /computacion/nombre/:nombre: find({nombre: RegExp(productoQuery, "i")})
OpGetNombre(col, p, b, ack) ==
  LET productoQuery == Trim(p)
      producto == findNombre(col, productoQuery)
  IN
  IF Len(producto) > 0
  THEN Hecho(col, ExitoDocs(200, "Producto/s encontrado/s con exito", producto))
  ELSE Hecho(col, Fallo(404, "No se encontraron productos"))

\* GET /computacion/precio/:precio: find({precio: {$gte: productoPrecio}})
OpGetPrecio(col, p, b, ack) ==
  LET productoPrecio == parseFloat(Str(Trim(p)))
      producto == findPrecio(col, productoPrecio)
  IN
  IF Len(producto) > 0
  THEN Hecho(col, ExitoDocs(200, "Producto encontrado con exito", producto))
  ELSE Hecho(col, Fallo(404, "Producto no encontrado"))

\* GET /computacion/categoria/:categoria: the array goes under "respnse"
OpGetCategoria(col, p, b, ack) ==
  LET queryProducto == Trim(p)
      productos == findCategoria(col, queryProducto)
  IN
  IF Len(productos) > 0
  THEN Hecho(col, [status |-> 200, keys |-> {"respnse", "success", "msg"},
                   success |-> TRUE, msg |-> "Categoria encontrada con exito",
                   tipo |-> "docs", docs |-> productos, cuerpo |-> <<>>])
  ELSE Hecho(col, Fallo(404, "Categoria no encontrada"))

\* POST /computacion without the test of codigoExiste
OpPostExisteSinControl(col, p, b, ack) ==
  [col |-> col, res |-> SinRespuesta, sig |-> "op2"]

\* POST /computacion, first call: findOne({codigo: codigoProducto})
OpPostExiste(col, p, b, ack) ==
  LET codigoProducto == parseInt(Campo(b, "codigo"))
      codigoExiste == findOne(col, codigoProducto)
  IN
  IF codigoExiste # <<>>
  THEN Hecho(col, Fallo(400,
         "El codigo de producto " \o Texto(ToChars(codigoProducto))
         \o ", ya existe. No puede haber otro nuevo producto con el mismo codigo"))
  ELSE [col |-> col, res |-> SinRespuesta, sig |-> "op2"]

\* POST /computacion, second call: insertOne(nuevoProducto); the store
\* assigns the _id and the response carries the document with it
OpPostInsertar(col, id, b, ack) ==
  LET nuevoProducto == Documento(b, id) IN
  IF ack
  THEN Hecho(insertOne(col, nuevoProducto),
             ExitoDoc(201, "Nuevo producto creado con exito", nuevoProducto))
  ELSE Hecho(insertOne(col, nuevoProducto),
             Fallo(500, "No se pudo crear el nuevo producto"))

\* PUT /computacion/:codigo: updateOne({codigo: codigoProducto}, {$set: nuevosDatos})
OpPut(col, p, b, ack) ==
  LET codigoProducto == parseInt(Str(Trim(p)))
      nuevosDatos == b
      response == updateOne(col, codigoProducto, nuevosDatos)
      matchedCount == IF ack THEN response.matchedCount ELSE 0
      modifiedCount == IF ack THEN response.modifiedCount ELSE 0
  IN
  IF ack /\ matchedCount = 1 /\ modifiedCount = 1
  THEN Hecho(response.col,
             [status |-> 200, keys |-> {"response", "success", "msg"}, success |-> TRUE,
              msg |-> "Datos modificados con exito",
              tipo |-> "body", docs |-> <<>>, cuerpo |-> nuevosDatos])
  ELSE Hecho(response.col,
             [status |-> 500, keys |-> {"response", "msg"}, success |-> FALSE,
              msg |-> "No se pudo modificar el producto, intente nuevamente",
              tipo |-> "false", docs |-> <<>>, cuerpo |-> <<>>])

\* PATCH /computacion/:codigo: updateOne({codigo: codigoProducto}, {$set: {precio: nuevoPrecio}})
OpPatch(col, p, b, ack) ==
  LET codigoProducto == parseInt(Str(Trim(p)))
      nuevoPrecio == parseFloat(Campo(b, "precio"))
      response == updateOne(col, codigoProducto, <<[k |-> "precio", v |-> nuevoPrecio]>>)
      matchedCount == IF ack THEN response.matchedCount ELSE 0
      modifiedCount == IF ack THEN response.modifiedCount ELSE 0
  IN
  IF matchedCount = 1 /\ modifiedCount = 1
  THEN Hecho(response.col, Exito(200, "Precio modificado con exito"))
  ELSE Hecho(response.col, Fallo(404,
         "El producto solicitado con codigo " \o Texto(ToChars(codigoProducto))
         \o ", no existe"))

\* DELETE /computacion/:codigo: deleteOne({codigo: codigoProducto})
OpDelete(col, p, b, ack) ==
  LET codigoProducto == parseInt(Str(Trim(p)))
      response == deleteOne(col, codigoProducto)
      deletedCount == IF ack THEN response.deletedCount ELSE 0
  IN
  IF ~ack /\ deletedCount = 0
  THEN Hecho(response.col,
             Fallo(404, "No se encontro ningun producto con el codigo seleccionado"))
  ELSE Hecho(response.col, Exito(200, "Producto eliminado con exito"))

Op(m, col, p, b, ack) ==
  CASE m = "LIST" -> OpLista(col, p, b, ack)
    [] m = "GETCODIGO" -> OpGetCodigo(col, p, b, ack)
    [] m = "GETNOMBRE" -> OpGetNombre(col, p, b, ack)
    [] m = "GETPRECIO" -> OpGetPrecio(col, p, b, ack)
    [] m = "GETCATEGORIA" -> OpGetCategoria(col, p, b, ack)
    [] m = "POST" -> OpPostExiste(col, p, b, ack)
    [] m = "PUT" -> OpPut(col, p, b, ack)
    [] m = "PATCH" -> OpPatch(col, p, b, ack)
    [] m = "DELETE" -> OpDelete(col, p, b, ack)

\* the store calls whose result carries an acknowledged flag
Escribe(m) == m \in {"PUT", "PATCH", "DELETE"}

\* the response of each handler's catch block
Catch(m) ==
  CASE m = "LIST" -> Fallo(500, "Error al obtener los productos de la base de datos")
    [] m = "GETCODIGO" -> Fallo(500, "Error al obtener el producto de la base de datos")
    [] m = "GETNOMBRE" -> Fallo(500, "Error al obtener el/los producto/s de la base de datos")
    [] m = "GETPRECIO" -> Fallo(500, "Error al obtener el producto de la base de datos")
    [] m = "GETCATEGORIA" -> Fallo(500, "Error al obtener la categoria de la base de datos")
    [] m = "POST" -> Fallo(500, "Error al intentar agregar un nuevo producto")
    [] m = "PUT" -> Fallo(500, "Error al modificar el producto")
    [] m = "PATCH" -> Fallo(500, "Error al modificar el precio del producto")
    [] m = "DELETE" -> Fallo(500, "Error al eliminar el producto")

----------------------------------------------------------------------------
(* Requests the clients send *)

Par(k, v) == [k |-> k, v |-> v]

Producto(codigo, nombre, precio, categoria) ==
  <<Par("codigo", codigo), Par("nombre", nombre), Par("precio", precio),
    Par("categoria", categoria)>>

NombreAb == Str(<<"A", "b">>)
CategoriaA == Str(<<"A">>)

BValido1 == Producto(Num(1), NombreAb, Num(1), CategoriaA)
BValido2 == Producto(Num(2), NombreAb, Num(2), CategoriaA)
BCodigoTexto == Producto(Str(<<"1">>), NombreAb, Num(1), CategoriaA)
BPrecioNegativo == Producto(Num(1), NombreAb, Num(-1), CategoriaA)
BPrecioCero == Producto(Num(1), NombreAb, Num(0), CategoriaA)
BNombreVacio == Producto(Num(1), Str(<<>>), Num(1), CategoriaA)
BSinCategoria == <<Par("codigo", Num(1)), Par("nombre", NombreAb), Par("precio", Num(1))>>
BExtra ==
  <<Par("codigo", Num(1)), Par("stock", Num(5)), Par("nombre", NombreAb),
    Par("precio", Num(1)), Par("color", Str(<<"a">>)), Par("categoria", CategoriaA)>>
\* bodies of POST and PUT requests
Cuerpos ==
  {BValido1, BValido2, BCodigoTexto, BPrecioNegativo, BPrecioCero, BNombreVacio,
   BSinCategoria, BExtra}

\* bodies of PATCH requests
CuerposPrecio ==
  {<<Par("precio", Num(1))>>, <<Par("precio", Num(2))>>, <<Par("precio", Num(-1))>>,
   <<Par("precio", Str(<<"a">>))>>}

\* path parameters, per route
Codigos == {<<"1">>, <<" ", "2">>, <<"a">>}
CodigosBorrar == {<<"1">>, <<"2">>, <<"0">>, <<"a">>}
CodigosPrecio == {<<"1">>, <<"-", "1">>, <<"a">>}
Precios == {<<"1">>, <<"2", " ">>, <<"0">>, <<"-", "1">>, <<"a">>, <<"1", "a">>}
Nombres == {<<"a">>, <<"b">>}
Categorias == {<<"a">>, <<"b">>}

Peticion(m, p, b) == [m |-> m, p |-> p, b |-> b]

Peticiones ==
  {Peticion("LIST", <<>>, <<>>)}
  \cup {Peticion("GETCODIGO", p, <<>>) : p \in Codigos}
  \cup {Peticion("GETNOMBRE", p, <<>>) : p \in Nombres}
  \cup {Peticion("GETPRECIO", p, <<>>) : p \in Precios}
  \cup {Peticion("GETCATEGORIA", p, <<>>) : p \in Categorias}
  \cup {Peticion("POST", <<>>, b) : b \in Cuerpos}
  \cup {Peticion("PUT", p, b) : p \in Codigos, b \in Cuerpos}
  \cup {Peticion("PATCH", p, b) : p \in CodigosPrecio, b \in CuerposPrecio}
  \cup {Peticion("DELETE", p, <<>>) : p \in CodigosBorrar}

----------------------------------------------------------------------------
(* State of one handler invocation *)

Libre ==
  [m |-> "", p |-> <<>>, b |-> <<>>,
   pc |-> "idle",        \* idle, connect, op1, op2, finally, done
   res |-> SinRespuesta, \* the response sent, if any
   nc |-> 0,             \* calls of connectDB
   no |-> 0,             \* collection calls
   nd |-> 0,             \* calls of disconnectDB
   cli |-> FALSE,        \* connectDB returned the client
   falla |-> FALSE,      \* the store failed: connect error, exception or no acknowledgement
   paso |-> FALSE,       \* POST: findOne returned null (codigoExiste is falsy)
   col0 |-> <<>>]        \* the collection when the request arrived

\* what is remembered of a completed request
SinPrevio ==
  [m |-> "", p |-> <<>>, b |-> <<>>, status |-> 0, falla |-> FALSE, col0 |-> <<>>]

Resumen(r) ==
  [m |-> r.m, p |-> r.p, b |-> r.b, status |-> r.res.status, falla |-> r.falla,
   col0 |-> r.col0]

EnVuelo(r) == r.pc \notin {"idle", "done"}

\* POST requests that may still insert
Pendientes == Cardinality({j \in Slots : reqs[j].m = "POST" /\ EnVuelo(reqs[j])})

Init ==
  /\ coleccion = <<>>
  /\ nextId = 1
  /\ clientOpen = FALSE
  /\ reqs = [i \in Slots |-> Libre]
  /\ previo = SinPrevio

\* A request arrives and its handler runs up to its first await.
Llega(i, rq) ==
  /\ ~EnVuelo(reqs[i])
  /\ rq.m = "POST" => nextId + Pendientes <= MaxId
  /\ LET v == Validar(rq.m, rq.p, rq.b) IN
     reqs' = [reqs EXCEPT ![i] =
                [Libre EXCEPT !.m = rq.m, !.p = rq.p, !.b = rq.b,
                              !.pc = v.sig, !.res = v.res, !.col0 = coleccion]]
  /\ UNCHANGED <<coleccion, nextId, clientOpen>>

Iniciar(i, rq) ==
  /\ Llega(i, rq)
  /\ UNCHANGED previo

\* the same, remembering the request that completed just before
IniciarTras(i, rq) ==
  /\ Llega(i, rq)
  /\ previo' = IF reqs[i].pc = "done" THEN Resumen(reqs[i]) ELSE SinPrevio

\* connectDB: client.connect() succeeds and the client is returned
ConnectOk(i) ==
  /\ reqs[i].pc = "connect"
  /\ clientOpen' = TRUE
  /\ reqs' = [reqs EXCEPT ![i].pc = "op1", ![i].nc = @ + 1, ![i].cli = TRUE]
  /\ UNCHANGED <<coleccion, nextId, previo>>

\* connectDB: client.connect() throws, null is returned, the handler
\* answers 500 and returns through its finally block
ConnectFalla(i) ==
  /\ reqs[i].pc = "connect"
  /\ reqs' = [reqs EXCEPT ![i].pc = "finally", ![i].nc = @ + 1,
                          ![i].res = ErrorConexion, ![i].falla = TRUE]
  /\ UNCHANGED <<coleccion, nextId, clientOpen, previo>>

\* the first collection call of the handler returns; ack is the
\* acknowledged flag of a write's result (a driver that connects on demand
\* reopens a client another request has closed; one that does not makes
\* the call throw, which is Lanza)
Operar(i, ack) ==
  /\ reqs[i].pc = "op1"
  /\ ~ack => Escribe(reqs[i].m)
  /\ LET r == Op(reqs[i].m, coleccion, reqs[i].p, reqs[i].b, ack) IN
     /\ coleccion' = r.col
     /\ reqs' = [reqs EXCEPT ![i].pc = r.sig, ![i].no = @ + 1, ![i].res = r.res,
                             ![i].falla = @ \/ ~ack, ![i].paso = (r.sig = "op2")]
  /\ clientOpen' = TRUE
  /\ UNCHANGED <<nextId, previo>>

\* the insertOne of POST returns
Insertar2(i, ack) ==
  /\ reqs[i].pc = "op2"
  /\ LET r == OpPostInsertar(coleccion, nextId, reqs[i].b, ack) IN
     /\ coleccion' = r.col
     /\ reqs' = [reqs EXCEPT ![i].pc = r.sig, ![i].no = @ + 1, ![i].res = r.res,
                             ![i].falla = @ \/ ~ack]
  /\ nextId' = nextId + 1
  /\ clientOpen' = TRUE
  /\ UNCHANGED previo

\* a handler whose catch block is not followed by a finally block
LanzaSinFinally(i) ==
  /\ reqs[i].pc \in {"op1", "op2"}
  /\ reqs' = [reqs EXCEPT ![i].pc = "done", ![i].no = @ + 1,
                          ![i].res = Catch(reqs[i].m), ![i].falla = TRUE]
  /\ UNCHANGED <<coleccion, nextId, clientOpen, previo>>

\* a collection call throws: the catch block answers 500
Lanza(i) ==
  /\ reqs[i].pc \in {"op1", "op2"}
  /\ reqs' = [reqs EXCEPT ![i].pc = "finally", ![i].no = @ + 1,
                          ![i].res = Catch(reqs[i].m), ![i].falla = TRUE]
  /\ UNCHANGED <<coleccion, nextId, clientOpen, previo>>

\* the finally block: disconnectDB closes the shared client
Disconnect(i) ==
  /\ reqs[i].pc = "finally"
  /\ clientOpen' = FALSE
  /\ reqs' = [reqs EXCEPT ![i].pc = "done", ![i].nd = @ + 1]
  /\ UNCHANGED <<coleccion, nextId, previo>>

\* a collection call of a request whose client another request's
\* disconnectDB has closed in the meantime throws (a driver that does not
\* connect on demand, or a call in progress when the pool is closed): the
\* catch block answers 500.  The store itself has not failed, so falla is
\* left alone.  With one request at a time the client is never closed
\* between connectDB and the collection calls.
LanzaCerrado(i) ==
  /\ reqs[i].pc \in {"op1", "op2"}
  /\ ~clientOpen
  /\ reqs' = [reqs EXCEPT ![i].pc = "finally", ![i].no = @ + 1,
                          ![i].res = Catch(reqs[i].m)]
  /\ UNCHANGED <<coleccion, nextId, clientOpen, previo>>

Paso(i) ==
  \/ ConnectOk(i)
  \/ Operar(i, TRUE)
  \/ Insertar2(i, TRUE)
  \/ Disconnect(i)
  \/ ConnectFalla(i)
  \/ Operar(i, FALSE)
  \/ Insertar2(i, FALSE)
  \/ Lanza(i)

\* one request at a time
Next ==
  \/ \E rq \in Peticiones : Iniciar(1, rq)
  \/ Paso(1)

Spec == Init /\ [][Next]_vars

\* one request at a time, each remembering its predecessor
PeticionesPar ==
  {Peticion("POST", <<>>, b) : b \in {BValido1, BValido2, BCodigoTexto}}
  \cup {Peticion(m, p, <<>>) : m \in {"DELETE", "GETCODIGO"}, p \in {<<"1">>, <<"2">>}}

NextPar ==
  \/ \E rq \in PeticionesPar : IniciarTras(1, rq)
  \/ Paso(1)

SpecPar == Init /\ [][NextPar]_vars

\* requests in flight together, interleaved at their awaits; a request takes
\* the lowest slot that is not in flight
PeticionesConc ==
  {Peticion("LIST", <<>>, <<>>), Peticion("POST", <<>>, BValido1),
   Peticion("GETCODIGO", <<"1">>, <<>>), Peticion("DELETE", <<"1">>, <<>>)}

NextConc ==
  \/ \E i \in Slots, rq \in PeticionesConc :
       /\ \A j \in 1..(i - 1) : EnVuelo(reqs[j])
       /\ Iniciar(i, rq)
  \/ \E i \in Slots : Paso(i)
  \/ \E i \in Slots : LanzaCerrado(i)

SpecConc == Init /\ [][NextConc]_vars

----------------------------------------------------------------------------
(* Vocabulary of the properties *)

Terminada(r) == r.pc = "done"

\* the store worked for the request: connectDB returned the client, no call
\* threw and every write was acknowledged
SinFalla(r) == ~r.falla

\* the code a path parameter denotes
CodigoDe(p) == parseInt(Str(Trim(p)))

\* a path parameter that is a decimal integer: an optional "-" and digits
EsNumerico(p) ==
  LET t == Trim(p)
      ds == IF t # <<>> /\ Head(t) = "-" THEN Tail(t) ELSE t
  IN ds # <<>> /\ \A i \in 1..Len(ds) : IsDigit(ds[i])

\* the keys of a body outside the allowed set, in the body's order
Sobrantes(b) ==
  LET Fuera(k) == k \notin {"codigo", "nombre", "precio", "categoria"}
  IN SelectSeq(Claves(b), Fuera)

\* the data model of section 3 on the four fields
CamposValidos(codigo, nombre, precio, categoria) ==
  /\ codigo.t = "num" /\ codigo.n > 0
  /\ nombre.t = "str" /\ nombre.s # <<>>
  /\ precio.t = "num" /\ precio.n > 0
  /\ categoria.t = "str" /\ categoria.s # <<>>

DocValido(d) == CamposValidos(d.codigo, d.nombre, d.precio, d.categoria)

CuerpoValido(b) ==
  /\ Sobrantes(b) = <<>>
  /\ CamposValidos(Campo(b, "codigo"), Campo(b, "nombre"), Campo(b, "precio"),
                   Campo(b, "categoria"))

\* documents of col whose codigo is the value v
ConCodigo(col, v) == {i \in 1..Len(col) : col[i].codigo = v}

\* the 400 of the request is the one its validation sent
RechazoDeValidacion(r) ==
  /\ r.res.status = 400
  /\ r.res = Validar(r.m, r.p, r.b).res

----------------------------------------------------------------------------
(* C1 *)

\* C1: in every reachable state no two stored documents have the same
\* codigo.  The code does not keep this: a PUT writes the body's codigo over
\* the document found by the path's codigo, and the duplicate check of POST
\* looks for the number parseInt gives while the body's own value is stored.
C1_CodigosUnicos ==
  \A i, j \in 1..Len(coleccion) :
    i # j => coleccion[i].codigo # coleccion[j].codigo

----------------------------------------------------------------------------
(* C2 *)

\* the request in slot 1 and its predecessor are two valid creates of the
\* same codigo, served by a working store, the first on a collection that
\* did not hold the codigo
DosAltas(r) ==
  /\ Terminada(r) /\ r.m = "POST" /\ previo.m = "POST"
  /\ CuerpoValido(r.b) /\ CuerpoValido(previo.b)
  /\ Campo(r.b, "codigo") = Campo(previo.b, "codigo")
  /\ SinFalla(r) /\ ~previo.falla
  /\ ConCodigo(previo.col0, Campo(previo.b, "codigo")) = {}

\* C2: two valid creates with the same codigo, one after the other: the
\* first is answered 201, the second 400, and the collection then holds
\* exactly one document with that codigo.
C2_AltaDuplicada ==
  DosAltas(reqs[1]) =>
    /\ previo.status = 201
    /\ reqs[1].res.status = 400
    /\ Cardinality(ConCodigo(coleccion, Campo(reqs[1].b, "codigo"))) = 1

C2_Testigo ==
  /\ DosAltas(reqs[1])
  /\ previo.status = 201
  /\ reqs[1].res.status = 400
  /\ Len(coleccion) = 1

----------------------------------------------------------------------------
(* C3 *)

\* a completed create or replace whose body has a key outside the allowed set
ConSobrantes(r) ==
  /\ Terminada(r) /\ r.m \in {"POST", "PUT"}
  /\ Sobrantes(r.b) # <<>>

ListaSobrantes(r) ==
  /\ r.res.status = 400
  /\ r.res.msg = "Error, se enviaron campos que no estan en la base de datos: "
                   \o Join(Sobrantes(r.b), ", ")

\* C3 as stated: every create or replace whose body has a key outside the
\* allowed set is answered 400 with a message listing exactly those keys,
\* whatever the path parameter is.
C3_Original ==
  \A i \in Slots : ConSobrantes(reqs[i]) => ListaSobrantes(reqs[i])

\* C3 amended: the same for every create, and for every replace whose path
\* parameter parses to a non-zero integer (a replace checks its path
\* parameter first and answers 400 "El codigo de producto es invalido").
C3_CamposSobrantes ==
  \A i \in Slots :
    ConSobrantes(reqs[i]) /\ (reqs[i].m = "PUT" => ~Falsy(CodigoDe(reqs[i].p)))
      => ListaSobrantes(reqs[i])

C3_Testigo ==
  \E i \in Slots :
    /\ ConSobrantes(reqs[i]) /\ reqs[i].m = "PUT" /\ ~Falsy(CodigoDe(reqs[i].p))
    /\ Len(Sobrantes(reqs[i].b)) = 2 /\ Len(reqs[i].b) > 2
    /\ ListaSobrantes(reqs[i])

----------------------------------------------------------------------------
(* C4 *)

\* C4: a create, replace, price patch or delete answered 400 by its
\* validation has not touched the store: no connectDB, no collection call,
\* no disconnectDB, and the collection is as it was.  The code runs its
\* validation inside the try block, so the finally block calls
\* disconnectDB, which closes the shared client.
C4_ValidacionSinStore ==
  \A i \in Slots :
    /\ Terminada(reqs[i])
    /\ reqs[i].m \in {"POST", "PUT", "PATCH", "DELETE"}
    /\ RechazoDeValidacion(reqs[i])
    => /\ reqs[i].nc = 0 /\ reqs[i].no = 0 /\ reqs[i].nd = 0
       /\ coleccion = reqs[i].col0

----------------------------------------------------------------------------
(* C5 *)

\* C5 as stated: a completed handler that called connectDB made exactly one
\* collection call (two for a create that passed the duplicate check) and
\* then called disconnectDB, also when the connection failed.
C5_Original ==
  \A i \in Slots :
    Terminada(reqs[i]) /\ reqs[i].nc >= 1
      => /\ reqs[i].no = (IF reqs[i].paso THEN 2 ELSE 1)
         /\ reqs[i].nd = 1

\* C5 amended: a handler calls connectDB at most once; it makes collection
\* calls only after connectDB returned the client and before disconnectDB;
\* when it completes after calling connectDB it has called disconnectDB
\* once, and has made exactly one collection call (two for a create that
\* passed the duplicate check) if connectDB returned the client and none if
\* connectDB failed.
C5_ConectaOperaDesconecta ==
  \A i \in Slots :
    LET r == reqs[i] IN
    /\ r.nc <= 1
    /\ r.no > 0 => r.cli
    /\ r.pc \in {"connect", "op1", "op2", "finally"} => r.nd = 0
    /\ r.pc = "op1" => r.no = 0
    /\ r.pc = "op2" => r.no = 1 /\ r.m = "POST" /\ r.paso
    /\ r.pc \in {"finally", "done"} /\ r.nc >= 1 =>
         r.no = (IF ~r.cli THEN 0 ELSE IF r.paso THEN 2 ELSE 1)
    /\ Terminada(r) /\ r.nc >= 1 => r.nd = 1

\* a create whose insertOne threw has made two calls and disconnected
C5_Testigo ==
  \E i \in Slots :
    /\ Terminada(reqs[i]) /\ reqs[i].m = "POST" /\ reqs[i].paso
    /\ reqs[i].res.status = 500 /\ reqs[i].res = Catch("POST")
    /\ reqs[i].no = 2 /\ reqs[i].nd = 1

----------------------------------------------------------------------------
(* C6 *)

\* C6: an acknowledged DELETE of a valid code c answers 404 and leaves the
\* collection as it was when no document has codigo c, and answers 200 when
\* one has; after a 200, GET /computacion/codigo/c answers 404.  The code
\* answers 404 only when the delete is NOT acknowledged, so an acknowledged
\* delete of an absent code answers 200.
C6_Borrar ==
  \A i \in Slots :
    LET r == reqs[i]
        c == CodigoDe(r.p)
    IN
    Terminada(r) /\ r.m = "DELETE" /\ ~Falsy(c) /\ SinFalla(r) =>
      /\ Primero(r.col0, c) = 0 => r.res.status = 404 /\ coleccion = r.col0
      /\ Primero(r.col0, c) # 0 => r.res.status = 200
      /\ r.res.status = 200 =>
           OpGetCodigo(coleccion, r.p, <<>>, TRUE).res.status = 404

----------------------------------------------------------------------------
(* C7 *)

\* the collection col0 with the precio of document k replaced
ConPrecio(col0, k, precio) == [col0 EXCEPT ![k].precio = precio]

\* C7: a PATCH of the code of an existing document with a numeric price > 0,
\* the document's current price included, answers 200 and changes that
\* document's precio and nothing else; a PATCH with a price <= 0 answers
\* 400 and changes nothing.  The code answers 404 "no existe" when the new
\* price equals the current one (modifiedCount is 0).
C7_CambiarPrecio ==
  \A i \in Slots :
    LET r == reqs[i]
        c == CodigoDe(r.p)
        precio == Campo(r.b, "precio")
        k == Primero(r.col0, c)
    IN
    Terminada(r) /\ r.m = "PATCH" /\ precio.t = "num" =>
      /\ precio.n > 0 /\ SinFalla(r) /\ k # 0 =>
           /\ r.res.status = 200
           /\ coleccion = ConPrecio(r.col0, k, precio)
      /\ precio.n <= 0 => r.res.status = 400 /\ coleccion = r.col0

----------------------------------------------------------------------------
(* C8 *)

\* C8: every response sent is an envelope with a boolean success and a
\* string msg and no key other than success, msg and response; success is
\* false with status 400, 404 and 500 and true with 200 and 201.  The code
\* sends {response: false, msg} (no success) when a replace modifies
\* nothing, and puts the result of the category search under "respnse".
C8_Sobre ==
  \A i \in Slots :
    LET res == reqs[i].res IN
    res.status # 0 =>
      /\ {"success", "msg"} \subseteq res.keys
      /\ res.keys \subseteq {"success", "msg", "response"}
      /\ res.status \in {400, 404, 500} => res.success = FALSE
      /\ res.status \in {200, 201} => res.success = TRUE

----------------------------------------------------------------------------
(* C9 *)

\* C9: every stored document satisfies the data model (codigo an integer
\* > 0, nombre and categoria non-empty strings, precio a number > 0, no
\* field the client added), and a create or replace whose body breaks it is
\* answered 400 and stores nothing.  The code only tests that nombre,
\* precio and categoria are truthy (and, for a create, that parseInt of
\* codigo is >= 1), so a negative precio or a codigo "1" is stored.
C9_ModeloDeDatos ==
  /\ \A k \in 1..Len(coleccion) : DocValido(coleccion[k])
  /\ \A i \in Slots :
       /\ Terminada(reqs[i]) /\ reqs[i].m \in {"POST", "PUT"}
       /\ ~CuerpoValido(reqs[i].b) /\ SinFalla(reqs[i])
       => reqs[i].res.status = 400 /\ coleccion = reqs[i].col0

----------------------------------------------------------------------------
(* C10 *)

\* the documents of col whose precio is a number >= n
DesdePrecio(col, n) ==
  LET T(d) == d.precio.t = "num" /\ d.precio.n >= n IN SelectSeq(col, T)

\* C10: for every numeric threshold p, 0 and negative values included,
\* GET /computacion/precio/p answers 200 with exactly the documents whose
\* precio >= p when there is one and 404 when there is none; it answers 400
\* only when p is not numeric.  The code tests !productoPrecio, so the
\* threshold 0 is answered 400 "El precio debe ser numerico".
C10_PorPrecio ==
  \A i \in Slots :
    LET r == reqs[i]
        esperado == DesdePrecio(r.col0, ParseChars(Trim(r.p)).n)
    IN
    Terminada(r) /\ r.m = "GETPRECIO" =>
      /\ EsNumerico(r.p) /\ SinFalla(r) =>
           IF esperado # <<>>
           THEN r.res.status = 200 /\ r.res.docs = esperado
           ELSE r.res.status = 404
      /\ r.res.status = 400 => ~EsNumerico(r.p)

----------------------------------------------------------------------------
(* C11 *)

\* every document of col is in docs exactly once, and docs has nothing else
CadaUnoUnaVez(docs, col) ==
  /\ Len(docs) = Len(col)
  /\ \A k \in 1..Len(col) :
       Cardinality({j \in 1..Len(docs) : docs[j] = col[k]}) = 1

\* each element's codigo is strictly greater than the next element's, in
\* the order find().sort({ codigo: -1 }) sorts by
EstrictamenteDescendente(docs) ==
  \A k \in 1..(Len(docs) - 1) : Menor(docs[k + 1].codigo, docs[k].codigo)

\* C11: after any sequence of create, replace, price-patch and delete
\* requests, the array a successful GET /computacion returns contains every
\* stored document exactly once and is strictly descending by codigo.  Two
\* stored documents can carry the same codigo (C1), and the list then holds
\* two neighbours with equal codigo.
C11_ListaOrdenada ==
  \A i \in Slots :
    LET r == reqs[i] IN
    Terminada(r) /\ r.m = "LIST" /\ r.res.status = 200 =>
      /\ CadaUnoUnaVez(r.res.docs, r.col0)
      /\ EstrictamenteDescendente(r.res.docs)

----------------------------------------------------------------------------
(* C12 *)

\* request r is between its successful connectDB and the completion of its
\* collection call(s)
EntreConectarYOperar(r) == r.pc \in {"op1", "op2"} /\ r.cli

\* C12: with two or more requests in flight, interleaving at the connect,
\* store-call and disconnect suspension points, no request's disconnectDB
\* closes the store client between another request's successful connectDB
\* and the completion of that request's collection call(s), and so no
\* request is answered by its catch block while the store has failed for
\* none of them, which run alone it would not be.  There is one client for
\* all requests (mongodb.js:28) and every finally block closes it.
C12_ClienteNoCerrado ==
  (\A j \in Slots : SinFalla(reqs[j])) =>
    \A i \in Slots :
      LET r == reqs[i] IN
      /\ EntreConectarYOperar(r) => clientOpen
      /\ Terminada(r) => r.res # Catch(r.m)

====
